---- MODULE Spec2Model ----
(***************************************************************************)
(* Order management backend: the order-status machine                      *)
(* (app/services/order_status_service.py, app/services/order_service.py,   *)
(* app/routes/orders.py) and the fulfillment status endpoints              *)
(* (app/routes/fulfillment.py, app/services/fulfillment_service.py,        *)
(* app/middleware/auth.py).  One order row is modelled together with its   *)
(* order_history and fulfillment_history rows and the stock of the product *)
(* it refers to.  Every HTTP handler is one atomic action.                 *)
(***************************************************************************)
EXTENDS Integers, Sequences, FiniteSets, TLC

VARIABLES orders, order_history, fulfillment_history, stock_quantity, req, resp, stdout,
          calls, limiter

vars ==
    <<orders, order_history, fulfillment_history, stock_quantity, req, resp, stdout, calls,
      limiter>>

(***************************************************************************)
(* Bounds of the model.                                                    *)
(***************************************************************************)
MaxHistory == 2
MaxStock == 1
MaxTime == 4
MaxRun == 7

\* Python's None
NULL == "null"

(***************************************************************************)
(* Status taxonomy (order_status_service.py).                              *)
(***************************************************************************)
OrderStatus == {"new", "pending", "processing", "shipped", "delivered", "cancelled", "returned"}

PaymentStatus == {"pending", "paid", "refunded", "failed"}

\* variant: delivered treated as terminal too
VALID_STATUS_TRANSITIONS_delivered_terminal ==
    [s \in OrderStatus |->
        CASE s = "new"        -> {"pending", "cancelled"}
          [] s = "pending"    -> {"processing", "cancelled"}
          [] s = "processing" -> {"shipped", "cancelled"}
          [] s = "shipped"    -> {"delivered", "returned"}
          [] s = "delivered"  -> {}
          [] s = "cancelled"  -> {}
          [] s = "returned"   -> {}]

VALID_STATUS_TRANSITIONS ==
    [s \in OrderStatus |->
        CASE s = "new"        -> {"pending", "cancelled"}
          [] s = "pending"    -> {"processing", "cancelled"}
          [] s = "processing" -> {"shipped", "cancelled"}
          [] s = "shipped"    -> {"delivered", "returned"}
          [] s = "delivered"  -> {"returned"}
          [] s = "cancelled"  -> {}
          [] s = "returned"   -> {}]

\* the keys of STATUS_TRANSITION_ROLES
TransitionRoleKeys ==
    { <<"new", "pending">>, <<"new", "cancelled">>, <<"pending", "processing">>,
      <<"pending", "cancelled">>, <<"processing", "shipped">>, <<"processing", "cancelled">>,
      <<"shipped", "delivered">>, <<"shipped", "returned">>, <<"delivered", "returned">> }

\* variant: every edge gets the role set of the first row
STATUS_TRANSITION_ROLES_all_customer ==
    [k \in TransitionRoleKeys |-> {"customer", "staff", "admin"}]

STATUS_TRANSITION_ROLES ==
    [k \in TransitionRoleKeys |->
        CASE k = <<"new", "pending">>          -> {"customer", "staff", "admin"}
          [] k = <<"new", "cancelled">>        -> {"customer", "staff", "admin"}
          [] k = <<"pending", "processing">>   -> {"staff", "admin"}
          [] k = <<"pending", "cancelled">>    -> {"customer", "staff", "admin"}
          [] k = <<"processing", "shipped">>   -> {"staff", "admin"}
          [] k = <<"processing", "cancelled">> -> {"staff", "admin"}
          [] k = <<"shipped", "delivered">>    -> {"staff", "admin"}
          [] k = <<"shipped", "returned">>     -> {"staff", "admin"}
          [] k = <<"delivered", "returned">>   -> {"customer", "staff", "admin"}]

(***************************************************************************)
(* Inputs of the requests.                                                 *)
(***************************************************************************)
\* status strings a request may carry: the enumeration and one foreign value
StatusInputs == OrderStatus \cup {"confirmed"}

PaymentInputs == {"pending", "paid"}

UserIds == {"u1", "u2"}

\* the customer the modelled order is placed for
CustomerInputs == {"u1"}

\* role claims of the bearer token
RoleInputs == {"admin", "Admin", "staff", "producer", "customer"}

\* authenticated identities (get_current_user): the token's subject and role claim
Actors ==
    { [id |-> "u1", role |-> "customer"], [id |-> "u2", role |-> "customer"],
      [id |-> "u1", role |-> "producer"], [id |-> "u2", role |-> "staff"],
      [id |-> "u2", role |-> "admin"], [id |-> "u2", role |-> "Admin"] }

\* str.lower() on the role claim (routes/orders.py, routes/fulfillment.py)
lower(role) == IF role = "Admin" THEN "admin" ELSE role

\* notes texts: None, the empty string, a caller-supplied text
NoNotes == [kind |-> "none", from |-> NULL, to |-> NULL]
EmptyNotes == [kind |-> "empty", from |-> NULL, to |-> NULL]
UserNotes == [kind |-> "user", from |-> NULL, to |-> NULL]
NotesInputs == {NoNotes, EmptyNotes, UserNotes}

\* Python truthiness of an Optional[str]
Truthy(notes) == notes.kind \notin {"none", "empty"}

\* failure points of the persistence client (response.error set)
NoFail == "none"
FailPoints == {NoFail, "fetch", "history_insert", "orders_update", "refetch"}
\* the failures drawn for the order handlers
FailInputs == {NoFail, "orders_update"}
CreateFailPoints == {NoFail, "orders_insert", "items_insert", "history_insert"}

(***************************************************************************)
(* The stored rows.                                                        *)
(***************************************************************************)
\* the slot of the orders table when the order does not exist
NoOrder ==
    [exists |-> FALSE, customer_id |-> NULL, status |-> NULL, payment_status |-> NULL,
     fulfillment_status |-> NULL, notes |-> NoNotes]

\* dict.get(key, default)
DictGet(d, k, default) == IF k \in DOMAIN d THEN d[k] ELSE default

\* a response that carries no validation report
NoOverride == [by |-> NULL, reason |-> NULL, timestamp |-> NULL]
NoReport == [is_valid |-> FALSE, checks |-> <<>>, override |-> NoOverride]

\* what an order handler hands back: the rows it leaves behind and its HTTP response
Result(row, hist, code, detail, valid) ==
    [orders |-> row, order_history |-> hist,
     resp |-> [code |-> code, detail |-> detail, valid |-> valid, report |-> NoReport,
               timeline |-> <<>>]]

\* what a fulfillment handler hands back; stdout holds the lines it printed
FResult(row, fhist, code, detail, report) ==
    [orders |-> row, fulfillment_history |-> fhist, stdout |-> {},
     resp |-> [code |-> code, detail |-> detail, valid |-> {}, report |-> report,
               timeline |-> <<>>]]

(***************************************************************************)
(* order_status_service.py                                                 *)
(***************************************************************************)
get_valid_status_transitions(current_status) ==
    IF current_status \in OrderStatus
    THEN DictGet(VALID_STATUS_TRANSITIONS, current_status, {})
    ELSE {}

\* variant: the ValueError handler lets the request through
can_transition_status_fail_open(current_status, new_status, user_role) ==
    IF current_status \notin OrderStatus \/ new_status \notin OrderStatus
    THEN [allowed |-> TRUE, reason |-> "", valid |-> {}]
    ELSE IF new_status \notin DictGet(VALID_STATUS_TRANSITIONS, current_status, {})
    THEN [allowed |-> FALSE, reason |-> "Cannot transition",
          valid |-> DictGet(VALID_STATUS_TRANSITIONS, current_status, {})]
    ELSE IF user_role \notin DictGet(STATUS_TRANSITION_ROLES, <<current_status, new_status>>, {})
    THEN [allowed |-> FALSE, reason |-> "User with role cannot transition", valid |-> {}]
    ELSE [allowed |-> TRUE, reason |-> "", valid |-> {}]

\* variant: an admin may request any known status
can_transition_status_admin_bypass(current_status, new_status, user_role) ==
    IF current_status \notin OrderStatus \/ new_status \notin OrderStatus
    THEN [allowed |-> FALSE, reason |-> "Invalid status value", valid |-> {}]
    ELSE IF user_role = "admin"
    THEN [allowed |-> TRUE, reason |-> "", valid |-> {}]
    ELSE IF new_status \notin DictGet(VALID_STATUS_TRANSITIONS, current_status, {})
    THEN [allowed |-> FALSE, reason |-> "Cannot transition",
          valid |-> DictGet(VALID_STATUS_TRANSITIONS, current_status, {})]
    ELSE IF user_role \notin DictGet(STATUS_TRANSITION_ROLES, <<current_status, new_status>>, {})
    THEN [allowed |-> FALSE, reason |-> "User with role cannot transition", valid |-> {}]
    ELSE [allowed |-> TRUE, reason |-> "", valid |-> {}]

\* variant: the reason lists the transitions of the requested status
can_transition_status_lists_new(current_status, new_status, user_role) ==
    IF current_status \notin OrderStatus \/ new_status \notin OrderStatus
    THEN [allowed |-> FALSE, reason |-> "Invalid status value", valid |-> {}]
    ELSE IF new_status \notin DictGet(VALID_STATUS_TRANSITIONS, current_status, {})
    THEN [allowed |-> FALSE, reason |-> "Cannot transition",
          valid |-> DictGet(VALID_STATUS_TRANSITIONS, new_status, {})]
    ELSE IF user_role \notin DictGet(STATUS_TRANSITION_ROLES, <<current_status, new_status>>, {})
    THEN [allowed |-> FALSE, reason |-> "User with role cannot transition", valid |-> {}]
    ELSE [allowed |-> TRUE, reason |-> "", valid |-> {}]

can_transition_status(current_status, new_status, user_role) ==
    IF current_status \notin OrderStatus \/ new_status \notin OrderStatus
    THEN [allowed |-> FALSE, reason |-> "Invalid status value", valid |-> {}]
    ELSE IF new_status \notin DictGet(VALID_STATUS_TRANSITIONS, current_status, {})
    THEN [allowed |-> FALSE, reason |-> "Cannot transition",
          valid |-> DictGet(VALID_STATUS_TRANSITIONS, current_status, {})]
    ELSE IF user_role \notin DictGet(STATUS_TRANSITION_ROLES, <<current_status, new_status>>, {})
    THEN [allowed |-> FALSE, reason |-> "User with role cannot transition", valid |-> {}]
    ELSE [allowed |-> TRUE, reason |-> "", valid |-> {}]

STATUS_DESCRIPTIONS ==
    [s \in OrderStatus |->
        CASE s = "new"        -> "Order has been created but not yet confirmed."
          [] s = "pending"    -> "Order has been confirmed and is awaiting processing."
          [] s = "processing" -> "Order is being prepared for shipping."
          [] s = "shipped"    -> "Order has been shipped and is in transit."
          [] s = "delivered"  -> "Order has been delivered to the customer."
          [] s = "cancelled"  -> "Order has been cancelled."
          [] s = "returned"   -> "Order has been returned by the customer."]

\* order_history holds the rows in the order of their insertion, which is the
\* ascending order of created_at; .order("created_at", desc=True) reads them back
Descending(rows) == [i \in 1..Len(rows) |-> rows[Len(rows) + 1 - i]]

\* get_order_by_id sets order["history"] unless the history query failed
get_order_status_history(fail) ==
    IF fail = "history_fetch" THEN <<>> ELSE Descending(order_history)

\* OrderStatus(new_status) raises ValueError for a string outside the enumeration
TimelineRaises(history) ==
    \E i \in 1..Len(history) : history[i].new_status \notin OrderStatus

get_status_timeline(fail) ==
    LET history == get_order_status_history(fail)
    IN [i \in 1..Len(history) |->
          [status |-> history[i].new_status,
           description |-> DictGet(STATUS_DESCRIPTIONS, history[i].new_status, ""),
           notes |-> history[i].notes,
           previous_status |-> history[i].previous_status]]

(***************************************************************************)
(* order_service.py                                                        *)
(***************************************************************************)
\* an OrderUpdate with every field None
EmptyUpdate ==
    [status |-> NULL, payment_status |-> NULL, notes |-> NoNotes, fulfillment_status |-> NULL]

\* variant: the update is built with dict(), the None fields are written too
ApplyUpdate_include_none(row, order_update) ==
    [row EXCEPT
        !.status = order_update.status,
        !.payment_status = order_update.payment_status,
        !.notes = order_update.notes,
        !.fulfillment_status = order_update.fulfillment_status]

\* supabase.table("orders").update(order_update.dict(exclude_none=True))
ApplyUpdate(row, order_update) ==
    [row EXCEPT
        !.status = IF order_update.status # NULL THEN order_update.status ELSE @,
        !.payment_status = IF order_update.payment_status # NULL THEN order_update.payment_status ELSE @,
        !.notes = IF order_update.notes.kind # "none" THEN order_update.notes ELSE @,
        !.fulfillment_status =
            IF order_update.fulfillment_status # NULL THEN order_update.fulfillment_status ELSE @]

\* variant: the history record is written when the status did not change
update_order_history_on_same(order_update, user_id, fail) ==
    IF fail = "fetch" THEN Result(orders, order_history, 500, "Error fetching order", {})
    ELSE IF ~orders.exists THEN Result(orders, order_history, 404, "Error fetching order", {})
    ELSE
      LET status_changed == order_update.status # NULL /\ order_update.status = orders.status
          history_data ==
              [previous_status |-> orders.status, new_status |-> order_update.status,
               changed_by |-> user_id,
               notes |-> [kind |-> "status_updated", from |-> orders.status,
                          to |-> order_update.status]]
          hist == IF status_changed THEN Append(order_history, history_data) ELSE order_history
      IN IF status_changed /\ fail = "history_insert"
         THEN Result(orders, order_history, 500, "Error creating order history", {})
         ELSE IF fail = "orders_update"
         THEN Result(orders, hist, 500, "Error updating order", {})
         ELSE IF fail = "refetch"
         THEN Result(ApplyUpdate(orders, order_update), hist, 500, "Error fetching order", {})
         ELSE Result(ApplyUpdate(orders, order_update), hist, 200, "", {})

update_order(order_update, user_id, fail) ==
    IF fail = "fetch" THEN Result(orders, order_history, 500, "Error fetching order", {})
    ELSE IF ~orders.exists THEN Result(orders, order_history, 404, "Error fetching order", {})
    ELSE
      LET status_changed == order_update.status # NULL /\ order_update.status # orders.status
          history_data ==
              [previous_status |-> orders.status, new_status |-> order_update.status,
               changed_by |-> user_id,
               notes |-> [kind |-> "status_updated", from |-> orders.status,
                          to |-> order_update.status]]
          hist == IF status_changed THEN Append(order_history, history_data) ELSE order_history
      IN IF status_changed /\ fail = "history_insert"
         THEN Result(orders, order_history, 500, "Error creating order history", {})
         ELSE IF fail = "orders_update"
         THEN Result(orders, hist, 500, "Error updating order", {})
         ELSE IF fail = "refetch"
         THEN Result(ApplyUpdate(orders, order_update), hist, 500, "Error fetching order", {})
         ELSE Result(ApplyUpdate(orders, order_update), hist, 200, "", {})

\* variant: the refund rule looks at the order status instead of the payment status
transition_order_status_no_refund(new_status, user_id, user_role, notes, fail) ==
    IF fail = "fetch" THEN Result(orders, order_history, 500, "Error fetching order", {})
    ELSE IF ~orders.exists THEN Result(orders, order_history, 404, "Error fetching order", {})
    ELSE
      LET current_status == orders.status
          check == can_transition_status(current_status, new_status, user_role)
          transition_notes ==
              IF Truthy(notes) THEN notes
              ELSE [kind |-> "status_changed", from |-> current_status, to |-> new_status]
          payment_status ==
              IF new_status = "cancelled" /\ orders.status = "paid"
              THEN "refunded" ELSE NULL
          update_data ==
              [EmptyUpdate EXCEPT !.status = new_status, !.notes = transition_notes,
                                  !.payment_status = payment_status]
      IN IF ~check.allowed
         THEN Result(orders, order_history, 400, check.reason, check.valid)
         ELSE update_order(update_data, user_id, fail)

transition_order_status(new_status, user_id, user_role, notes, fail) ==
    IF fail = "fetch" THEN Result(orders, order_history, 500, "Error fetching order", {})
    ELSE IF ~orders.exists THEN Result(orders, order_history, 404, "Error fetching order", {})
    ELSE
      LET current_status == orders.status
          check == can_transition_status(current_status, new_status, user_role)
          transition_notes ==
              IF Truthy(notes) THEN notes
              ELSE [kind |-> "status_changed", from |-> current_status, to |-> new_status]
          payment_status ==
              IF new_status = "cancelled" /\ orders.payment_status = "paid"
              THEN "refunded" ELSE NULL
          update_data ==
              [EmptyUpdate EXCEPT !.status = new_status, !.notes = transition_notes,
                                  !.payment_status = payment_status]
      IN IF ~check.allowed
         THEN Result(orders, order_history, 400, check.reason, check.valid)
         ELSE update_order(update_data, user_id, fail)

create_order(order, user_id, fail) ==
    IF fail = "orders_insert" THEN Result(orders, order_history, 500, "Error creating order", {})
    ELSE IF fail = "items_insert"
    THEN Result(NoOrder, order_history, 500, "Error creating order items", {})
    ELSE
      LET created_order ==
              [exists |-> TRUE, customer_id |-> order.customer_id, status |-> order.status,
               payment_status |-> order.payment_status,
               fulfillment_status |-> order.fulfillment_status, notes |-> order.notes]
          history_data ==
              [previous_status |-> NULL, new_status |-> created_order.status,
               changed_by |-> user_id,
               notes |-> [kind |-> "order_created", from |-> NULL, to |-> NULL]]
      IN Result(created_order,
                IF fail = "history_insert" THEN <<>> ELSE <<history_data>>,
                201, "", {})

(***************************************************************************)
(* transition_order_status run by two workers at once: every request to    *)
(* the persistence client is a step of its own.                            *)
(***************************************************************************)
\* the worker processes that serve requests
Callers == {"w1", "w2"}

\* a worker that is serving no request
IdleCall ==
    [pc |-> "idle", user_id |-> NULL, user_role |-> NULL, new_status |-> NULL,
     notes |-> NoNotes, order |-> NoOrder, current_order |-> NoOrder, code |-> 0]

\* the arguments drawn for the concurrent calls
CallActors == {[id |-> "u1", role |-> "customer"], [id |-> "u2", role |-> "staff"]}
CallStatusInputs == {"pending", "processing", "cancelled"}
CallNotesInputs == {NoNotes, UserNotes}

\* variant: the update matches the row only while its status is the one read
orders_update_if_status_unchanged(current_order, update_data) ==
    IF orders.status = current_order.status
    THEN [matched |-> TRUE, row |-> ApplyUpdate(orders, update_data)]
    ELSE [matched |-> FALSE, row |-> orders]

\* supabase.table("orders").update(update_data).eq("id", order_id): the row is
\* matched by id alone, whatever it holds by now
orders_update(current_order, update_data) ==
    [matched |-> orders.exists, row |-> ApplyUpdate(orders, update_data)]

\* transition_order_status, lines 122-131: read the order and validate
TransitionGetOrder(p) ==
    \E actor \in CallActors, new_status \in CallStatusInputs, notes \in CallNotesInputs :
        LET check == can_transition_status(orders.status, new_status, lower(actor.role))
            call == [calls[p] EXCEPT !.user_id = actor.id, !.user_role = lower(actor.role),
                                     !.new_status = new_status, !.notes = notes]
        IN /\ calls[p].pc = "idle"
           /\ calls' = [calls EXCEPT ![p] =
                  IF ~orders.exists THEN [call EXCEPT !.pc = "done", !.code = 404]
                  ELSE IF ~check.allowed THEN [call EXCEPT !.pc = "done", !.code = 400]
                  ELSE [call EXCEPT !.pc = "update_order", !.order = orders]]
           /\ UNCHANGED <<orders, order_history, fulfillment_history, stock_quantity,
                          req, resp, stdout, limiter>>

\* the OrderUpdate that transition_order_status builds, lines 133-153
TransitionUpdate(call) ==
    [EmptyUpdate EXCEPT
        !.status = call.new_status,
        !.notes = IF Truthy(call.notes) THEN call.notes
                  ELSE [kind |-> "status_changed", from |-> call.order.status,
                        to |-> call.new_status],
        !.payment_status =
            IF call.new_status = "cancelled" /\ call.order.payment_status = "paid"
            THEN "refunded" ELSE NULL]

\* update_order, line 144: read the order again
UpdateOrderGetOrder(p) ==
    /\ calls[p].pc = "update_order"
    /\ calls' = [calls EXCEPT ![p] =
           IF ~orders.exists THEN [@ EXCEPT !.pc = "done", !.code = 404]
           ELSE [@ EXCEPT !.current_order = orders,
                          !.pc = IF calls[p].new_status # orders.status
                                 THEN "history" ELSE "update"]]
    /\ UNCHANGED <<orders, order_history, fulfillment_history, stock_quantity,
                   req, resp, stdout, limiter>>

\* update_order, lines 150-165: insert the history record
InsertOrderHistory(p) ==
    /\ calls[p].pc = "history"
    /\ order_history' = Append(order_history,
           [previous_status |-> calls[p].current_order.status,
            new_status |-> TransitionUpdate(calls[p]).status,
            changed_by |-> calls[p].user_id,
            notes |-> [kind |-> "status_updated", from |-> calls[p].current_order.status,
                       to |-> TransitionUpdate(calls[p]).status]])
    /\ calls' = [calls EXCEPT ![p].pc = "update"]
    /\ UNCHANGED <<orders, fulfillment_history, stock_quantity, req, resp, stdout, limiter>>

\* update_order, lines 167-182: write the order row and return it
UpdateOrders(p) ==
    LET written == orders_update(calls[p].current_order, TransitionUpdate(calls[p]))
    IN /\ calls[p].pc = "update"
       /\ orders' = written.row
       /\ calls' = [calls EXCEPT ![p].pc = "done",
                                  ![p].code = IF written.matched THEN 200 ELSE 404]
       /\ UNCHANGED <<order_history, fulfillment_history, stock_quantity, req, resp, stdout, limiter>>

(***************************************************************************)
(* routes/orders.py: the handlers, one action each.                        *)
(***************************************************************************)
NoReq ==
    [op |-> "none", role |-> NULL, new_status |-> NULL, skip_validation |-> FALSE,
     fail |-> NoFail, user_id |-> NULL, body |-> EmptyUpdate, override_reason |-> NULL]
NoResp == [code |-> 0, detail |-> "", valid |-> {}, report |-> NoReport, timeline |-> <<>>]

\* the last call: its operation and arguments; fail is the failure the call
\* met, recorded where the response alone does not show it; the caller's id and
\* the request body are recorded by RequestOf
Request(op, role, new_status, skip_validation, fail) ==
    [op |-> op, role |-> role, new_status |-> new_status, skip_validation |-> skip_validation,
     fail |-> fail, user_id |-> NULL, body |-> EmptyUpdate, override_reason |-> NULL]

\* a call of op by the actor with the body order_data
RequestOf(op, actor, order_data, fail) ==
    [Request(op, actor.role, order_data.status, FALSE, fail)
        EXCEPT !.user_id = actor.id, !.body = order_data]

\* a handler's result becomes the next state of the order tables
Reply(result) ==
    /\ Len(result.order_history) <= MaxHistory
    /\ orders' = result.orders
    /\ order_history' = result.order_history
    /\ resp' = result.resp
    /\ stdout' = {}
    /\ UNCHANGED <<calls, limiter>>

\* POST /orders/
create_new_order(user_id, role, order_data, fail) ==
    IF order_data.customer_id # user_id /\ lower(role) \notin {"admin", "staff"}
    THEN Result(orders, order_history, 403, "You can only create orders for yourself", {})
    ELSE create_order(order_data, user_id, fail)

\* PATCH /orders/{order_id}/status
update_order_status_endpoint(user_id, role, new_status, notes, fail) ==
    IF new_status = NULL
    THEN Result(orders, order_history, 400, "Status is required", {})
    ELSE transition_order_status(new_status, user_id, lower(role), notes, fail)

\* PATCH /orders/{order_id}/cancel
cancel_order_endpoint(user_id, role, fail) ==
    transition_order_status("cancelled", user_id, lower(role),
                            [kind |-> "order_cancelled", from |-> NULL, to |-> NULL], fail)

\* the fields of an OrderUpdate other than notes that are not None
NonNotesKeys(order_data) ==
    {key \in {"status", "payment_status", "fulfillment_status"} : order_data[key] # NULL}

\* PUT /orders/{order_id}
update_existing_order(user_id, role, order_data, fail) ==
    LET user_role == lower(role)
    IN IF fail = "fetch" THEN Result(orders, order_history, 500, "Error fetching order", {})
       ELSE IF ~orders.exists THEN Result(orders, order_history, 404, "Error fetching order", {})
       ELSE IF /\ orders.customer_id # user_id
               /\ user_role \notin {"admin", "staff"}
               /\ NonNotesKeys(order_data) # {}
       THEN Result(orders, order_history, 403,
                   "You can only update notes for your own orders", {})
       ELSE IF order_data.status # NULL /\ order_data.status # orders.status
       THEN transition_order_status(order_data.status, user_id, user_role,
                                    order_data.notes, fail)
       ELSE update_order(order_data, user_id, fail)

\* GET /orders/{order_id}/status/transitions
get_available_status_transitions(user_id, role, fail) ==
    IF fail = "fetch" THEN Result(orders, order_history, 500, "Error fetching order", {})
    ELSE IF ~orders.exists THEN Result(orders, order_history, 404, "Error fetching order", {})
    ELSE IF orders.customer_id # user_id /\ lower(role) \notin {"admin", "staff"}
    THEN Result(orders, order_history, 403, "You don't have permission to view this order", {})
    ELSE Result(orders, order_history, 200, "", get_valid_status_transitions(orders.status))

\* GET /orders/{order_id}/timeline
get_order_timeline(user_id, role, fail) ==
    IF fail = "fetch" THEN Result(orders, order_history, 500, "Error fetching order", {})
    ELSE IF ~orders.exists THEN Result(orders, order_history, 404, "Error fetching order", {})
    ELSE IF orders.customer_id # user_id /\ lower(role) \notin {"admin", "staff"}
    THEN Result(orders, order_history, 403, "You don't have permission to view this order", {})
    ELSE IF TimelineRaises(get_order_status_history(fail))
    THEN Result(orders, order_history, 500, "ValueError", {})
    ELSE [Result(orders, order_history, 200, "", {})
            EXCEPT !.resp.timeline = get_status_timeline(fail)]

CreateNewOrderFrom(Statuses, Fulfillments) ==
    \E actor \in Actors, customer_id \in CustomerInputs, status \in Statuses,
       payment_status \in PaymentInputs, fulfillment_status \in Fulfillments,
       fail \in CreateFailPoints :
        /\ ~orders.exists
        /\ req' = Request("create_new_order", actor.role, NULL, FALSE, NoFail)
        /\ Reply(create_new_order(actor.id, actor.role,
                    [customer_id |-> customer_id, status |-> status,
                     payment_status |-> payment_status,
                     fulfillment_status |-> fulfillment_status,
                     notes |-> NoNotes], fail))
        /\ UNCHANGED <<fulfillment_history, stock_quantity>>

CreateNewOrder == CreateNewOrderFrom(StatusInputs, {"pending"})

UpdateOrderStatusEndpointFrom(Notes, Fails) ==
    \E actor \in Actors, new_status \in StatusInputs \cup {NULL},
       notes \in Notes, fail \in Fails :
        /\ req' = Request("update_order_status_endpoint", actor.role, new_status, FALSE, NoFail)
        /\ Reply(update_order_status_endpoint(actor.id, actor.role, new_status, notes, fail))
        /\ UNCHANGED <<fulfillment_history, stock_quantity>>

UpdateOrderStatusEndpoint == UpdateOrderStatusEndpointFrom(NotesInputs, FailInputs)

CancelOrderEndpoint ==
    \E actor \in Actors, fail \in FailInputs :
        /\ req' = Request("cancel_order_endpoint", actor.role, "cancelled", FALSE, NoFail)
        /\ Reply(cancel_order_endpoint(actor.id, actor.role, fail))
        /\ UNCHANGED <<fulfillment_history, stock_quantity>>

GetAvailableStatusTransitions ==
    \E actor \in Actors :
        /\ req' = Request("get_available_status_transitions", actor.role, NULL, FALSE, NoFail)
        /\ Reply(get_available_status_transitions(actor.id, actor.role, NoFail))
        /\ UNCHANGED <<fulfillment_history, stock_quantity>>

\* request bodies of PUT /orders/{order_id}: one per field an OrderUpdate may set
UpdateInputs ==
    { [EmptyUpdate EXCEPT !.notes = UserNotes],
      [EmptyUpdate EXCEPT !.status = "processing"],
      [EmptyUpdate EXCEPT !.status = "cancelled"],
      [EmptyUpdate EXCEPT !.payment_status = "paid"],
      [EmptyUpdate EXCEPT !.fulfillment_status = "ready"] }

UpdateExistingOrder ==
    \E actor \in Actors, order_data \in UpdateInputs, fail \in {NoFail} :
        /\ req' = RequestOf("update_existing_order", actor, order_data, fail)
        /\ Reply(update_existing_order(actor.id, actor.role, order_data, fail))
        /\ UNCHANGED <<fulfillment_history, stock_quantity>>

\* the failures drawn for the timeline: of the order query and of the history query
TimelineFailInputs == {NoFail, "history_fetch"}

GetOrderTimeline ==
    \E actor \in Actors, fail \in TimelineFailInputs :
        /\ req' = Request("get_order_timeline", actor.role, NULL, FALSE, fail)
        /\ Reply(get_order_timeline(actor.id, actor.role, fail))
        /\ UNCHANGED <<fulfillment_history, stock_quantity>>

(***************************************************************************)
(* middleware/auth.py                                                      *)
(***************************************************************************)
ROLE_PERMISSIONS ==
    [role \in {"admin", "producer", "staff"} |->
        CASE role = "admin" ->
               {"create:users", "read:users", "update:users", "delete:users",
                "create:orders", "read:orders", "update:orders", "delete:orders",
                "create:products", "read:products", "update:products", "delete:products",
                "read:statistics", "manage:forms", "manage:settings"}
          [] role = "producer" ->
               {"create:products", "read:products", "update:products", "delete:products",
                "read:orders", "update:orders", "read:statistics", "manage:forms",
                "manage:settings"}
          [] role = "staff" ->
               {"read:products", "read:orders", "update:orders"}]

\* variant: the role is looked up, the permission is not
has_permission_any(user_role, required_permission) ==
    IF user_role = NULL THEN FALSE
    ELSE DictGet(ROLE_PERMISSIONS, user_role, {}) # {}

has_permission(user_role, required_permission) ==
    IF user_role = NULL THEN FALSE
    ELSE required_permission \in DictGet(ROLE_PERMISSIONS, user_role, {})

\* higher number = higher access
ROLE_HIERARCHY == [admin |-> 3, producer |-> 2, staff |-> 1]

has_minimum_role(user_role, required_role) ==
    IF user_role = NULL THEN FALSE
    ELSE DictGet(ROLE_HIERARCHY, user_role, 0) >= DictGet(ROLE_HIERARCHY, required_role, 0)

(***************************************************************************)
(* schemas/fulfillment.py and the names bound in routes/fulfillment.py     *)
(***************************************************************************)
\* class FulfillmentStatus(str): its class attributes
FulfillmentStatus ==
    [PENDING |-> "pending", PROCESSING |-> "processing", PICKED |-> "picked",
     PACKED |-> "packed", READY |-> "ready", SHIPPED |-> "shipped",
     COMPLETED |-> "completed", CANCELLED |-> "cancelled"]

\* getattr: a missing attribute raises AttributeError
HasAttr(class, name) == name \in DOMAIN class

FulfillmentStatusValues == { FulfillmentStatus[a] : a \in DOMAIN FulfillmentStatus }

\* the names the module routes/fulfillment.py imports from app.schemas.fulfillment
RoutesFulfillmentImports ==
    {"FulfillmentRequest", "FulfillmentStatusUpdate", "ShippingInfo", "Fulfillment",
     "PickList", "PackingSlip", "FulfillmentMetricsReport", "FulfillmentPerformanceReport",
     "FulfillmentExceptionReport", "FulfillmentReportFilters", "ReportSchedule",
     "ReportExportRequest"}

\* fulfillment statuses a request may carry
FulfillmentInputs == FulfillmentStatusValues \cup {"delivered"}

(***************************************************************************)
(* app/services/validation_service.py (not in the repository sources;      *)
(* modelled from sections 4.1 and 4.3 of the specification).               *)
(***************************************************************************)
FULFILLMENT_TRANSITIONS ==
    [s \in FulfillmentStatusValues |->
        CASE s = "pending"    -> {"processing", "cancelled"}
          [] s = "processing" -> {"picked", "cancelled"}
          [] s = "picked"     -> {"packed", "cancelled"}
          [] s = "packed"     -> {"ready", "cancelled"}
          [] s = "ready"      -> {"shipped", "cancelled"}
          [] s = "shipped"    -> {"completed", "cancelled"}
          [] s = "completed"  -> {}
          [] s = "cancelled"  -> {}]

validate_status_transition(current_status, new_status) ==
    new_status \in DictGet(FULFILLMENT_TRANSITIONS, current_status, {})

\* the battery of checks; each is evaluated and recorded
validate_fulfillment_prerequisites ==
    LET checks == << [name |-> "stock", passed |-> stock_quantity >= 1] >>
    IN [is_valid |-> \A i \in 1..Len(checks) : checks[i].passed,
        checks |-> checks, override |-> NoOverride]

\* variant: the overridden report is built afresh, without the check results
override_validation_fresh(validation_report, user_id, override_reason) ==
    [is_valid |-> TRUE, checks |-> <<>>,
     override |-> [by |-> user_id, reason |-> override_reason, timestamp |-> "now"]]

override_validation(validation_report, user_id, override_reason) ==
    [validation_report EXCEPT
        !.is_valid = TRUE,
        !.override = [by |-> user_id, reason |-> override_reason, timestamp |-> "now"]]

(***************************************************************************)
(* services/fulfillment_service.py                                         *)
(***************************************************************************)
\* the producer that owns the product of the order's item
ProductProducerId == "u1"

\* failures met by update_fulfillment_status: of the persistence client and of
\* the notification dispatch
FulfillmentFailPoints ==
    {NoFail, "fetch", "orders_update", "history_insert", "order_items_fetch", "notify"}

\* lines 767-772: the exception raised while choosing and sending the
\* notification (NULL when none); NotificationService raises when its dispatch fails
notify(new_status, fail) ==
    IF new_status = FulfillmentStatus.PROCESSING
    THEN IF fail = "notify" THEN "NotificationError" ELSE NULL
    \* line 769 builds the list of statuses, FulfillmentStatus.DELIVERING among them
    ELSE IF ~HasAttr(FulfillmentStatus, "DELIVERING") \/ ~HasAttr(FulfillmentStatus, "DELIVERED")
    THEN "AttributeError"
    ELSE IF fail = "notify" THEN "NotificationError" ELSE NULL

\* variant: a failed history insert is raised like a failed update
update_fulfillment_status_history_raises(new_status, user_id, notes, fail) ==
    IF fail = "fetch" THEN FResult(orders, fulfillment_history, 500, "Error fetching order", NoReport)
    ELSE IF ~orders.exists
    THEN FResult(orders, fulfillment_history, 404, "Order not found", NoReport)
    ELSE
      LET current_status == orders.fulfillment_status
          status_update ==
              IF new_status = FulfillmentStatus.SHIPPED THEN "shipped"
              ELSE IF HasAttr(FulfillmentStatus, "DELIVERED")
                      /\ new_status = FulfillmentStatus["DELIVERED"] THEN "delivered"
              ELSE IF new_status = FulfillmentStatus.CANCELLED THEN "cancelled"
              ELSE NULL
          updated_order ==
              [orders EXCEPT !.fulfillment_status = new_status,
                             !.status = IF status_update # NULL THEN status_update ELSE @]
          history_entry ==
              [previous_status |-> current_status, new_status |-> new_status,
               user_id |-> user_id,
               notes |-> IF Truthy(notes) THEN notes
                         ELSE [kind |-> "status_changed", from |-> current_status,
                               to |-> new_status]]
          history ==
              IF fail = "history_insert" THEN fulfillment_history
              ELSE Append(fulfillment_history, history_entry)
          \* lines 751-761: the producer of the first item's product
          producer_id == IF fail = "order_items_fetch" THEN NULL ELSE ProductProducerId
          \* lines 763-772: what the try block raises, if anything
          raised == IF producer_id = NULL THEN NULL
                    ELSE notify(new_status, fail)
          printed ==
              (IF fail = "history_insert"
               THEN {"Error creating fulfillment history entry"} ELSE {})
              \cup (IF raised # NULL THEN {"Error sending producer notification"} ELSE {})
      IN IF ~validate_status_transition(current_status, new_status)
         THEN FResult(orders, fulfillment_history, 400, "Invalid status transition", NoReport)
         \* line 717: FulfillmentStatus.DELIVERED is evaluated unless the first test matched
         ELSE IF new_status # FulfillmentStatus.SHIPPED /\ ~HasAttr(FulfillmentStatus, "DELIVERED")
         THEN FResult(orders, fulfillment_history, 500, "AttributeError", NoReport)
         ELSE IF fail = "orders_update"
         THEN FResult(orders, fulfillment_history, 500, "Error updating order status", NoReport)
         ELSE IF fail = "history_insert"
         THEN FResult(updated_order, fulfillment_history, 500,
                      "Error creating fulfillment history entry", NoReport)
         ELSE [FResult(updated_order, history, 200, "", NoReport) EXCEPT !.stdout = printed]

\* variant: the notification step is not wrapped in try/except
update_fulfillment_status_notify_raises(new_status, user_id, notes, fail) ==
    IF fail = "fetch" THEN FResult(orders, fulfillment_history, 500, "Error fetching order", NoReport)
    ELSE IF ~orders.exists
    THEN FResult(orders, fulfillment_history, 404, "Order not found", NoReport)
    ELSE
      LET current_status == orders.fulfillment_status
          status_update ==
              IF new_status = FulfillmentStatus.SHIPPED THEN "shipped"
              ELSE IF HasAttr(FulfillmentStatus, "DELIVERED")
                      /\ new_status = FulfillmentStatus["DELIVERED"] THEN "delivered"
              ELSE IF new_status = FulfillmentStatus.CANCELLED THEN "cancelled"
              ELSE NULL
          updated_order ==
              [orders EXCEPT !.fulfillment_status = new_status,
                             !.status = IF status_update # NULL THEN status_update ELSE @]
          history_entry ==
              [previous_status |-> current_status, new_status |-> new_status,
               user_id |-> user_id,
               notes |-> IF Truthy(notes) THEN notes
                         ELSE [kind |-> "status_changed", from |-> current_status,
                               to |-> new_status]]
          history ==
              IF fail = "history_insert" THEN fulfillment_history
              ELSE Append(fulfillment_history, history_entry)
          \* lines 751-761: the producer of the first item's product
          producer_id == IF fail = "order_items_fetch" THEN NULL ELSE ProductProducerId
          \* lines 763-772: what the try block raises, if anything
          raised == IF producer_id = NULL THEN NULL
                    ELSE notify(new_status, fail)
          printed ==
              (IF fail = "history_insert"
               THEN {"Error creating fulfillment history entry"} ELSE {})
              \cup (IF raised # NULL THEN {"Error sending producer notification"} ELSE {})
      IN IF ~validate_status_transition(current_status, new_status)
         THEN FResult(orders, fulfillment_history, 400, "Invalid status transition", NoReport)
         \* line 717: FulfillmentStatus.DELIVERED is evaluated unless the first test matched
         ELSE IF new_status # FulfillmentStatus.SHIPPED /\ ~HasAttr(FulfillmentStatus, "DELIVERED")
         THEN FResult(orders, fulfillment_history, 500, "AttributeError", NoReport)
         ELSE IF fail = "orders_update"
         THEN FResult(orders, fulfillment_history, 500, "Error updating order status", NoReport)
         ELSE IF raised # NULL
         THEN FResult(updated_order, history, 500, raised, NoReport)
         ELSE [FResult(updated_order, history, 200, "", NoReport) EXCEPT !.stdout = printed]

update_fulfillment_status(new_status, user_id, notes, fail) ==
    IF fail = "fetch" THEN FResult(orders, fulfillment_history, 500, "Error fetching order", NoReport)
    ELSE IF ~orders.exists
    THEN FResult(orders, fulfillment_history, 404, "Order not found", NoReport)
    ELSE
      LET current_status == orders.fulfillment_status
          status_update ==
              IF new_status = FulfillmentStatus.SHIPPED THEN "shipped"
              ELSE IF HasAttr(FulfillmentStatus, "DELIVERED")
                      /\ new_status = FulfillmentStatus["DELIVERED"] THEN "delivered"
              ELSE IF new_status = FulfillmentStatus.CANCELLED THEN "cancelled"
              ELSE NULL
          updated_order ==
              [orders EXCEPT !.fulfillment_status = new_status,
                             !.status = IF status_update # NULL THEN status_update ELSE @]
          history_entry ==
              [previous_status |-> current_status, new_status |-> new_status,
               user_id |-> user_id,
               notes |-> IF Truthy(notes) THEN notes
                         ELSE [kind |-> "status_changed", from |-> current_status,
                               to |-> new_status]]
          history ==
              IF fail = "history_insert" THEN fulfillment_history
              ELSE Append(fulfillment_history, history_entry)
          \* lines 751-761: the producer of the first item's product
          producer_id == IF fail = "order_items_fetch" THEN NULL ELSE ProductProducerId
          \* lines 763-772: what the try block raises, if anything
          raised == IF producer_id = NULL THEN NULL
                    ELSE notify(new_status, fail)
          printed ==
              (IF fail = "history_insert"
               THEN {"Error creating fulfillment history entry"} ELSE {})
              \cup (IF raised # NULL THEN {"Error sending producer notification"} ELSE {})
      IN IF ~validate_status_transition(current_status, new_status)
         THEN FResult(orders, fulfillment_history, 400, "Invalid status transition", NoReport)
         \* line 717: FulfillmentStatus.DELIVERED is evaluated unless the first test matched
         ELSE IF new_status # FulfillmentStatus.SHIPPED /\ ~HasAttr(FulfillmentStatus, "DELIVERED")
         THEN FResult(orders, fulfillment_history, 500, "AttributeError", NoReport)
         ELSE IF fail = "orders_update"
         THEN FResult(orders, fulfillment_history, 500, "Error updating order status", NoReport)
         ELSE [FResult(updated_order, history, 200, "", NoReport) EXCEPT !.stdout = printed]

(***************************************************************************)
(* services/shipping_service.py                                            *)
(***************************************************************************)
\* the ids of DEFAULT_SHIPPING_METHODS
ShippingMethodIds == {"standard", "express", "pickup"}

\* method ids a request may carry
MethodInputs == {"standard", "unknown"}

apply_shipping_to_order(method_id, user_id, fail) ==
    IF method_id \notin ShippingMethodIds
    THEN Result(orders, order_history, 400, "Shipping method not found", {})
    ELSE IF fail = "orders_update"
    THEN Result(orders, order_history, 500,
                "Error updating order with shipping information", {})
    ELSE IF ~orders.exists THEN Result(orders, order_history, 404, "Order not found", {})
    ELSE Result([orders EXCEPT !.fulfillment_status = "pending"], order_history, 200, "", {})

(***************************************************************************)
(* routes/fulfillment.py and routes/products.py                            *)
(***************************************************************************)
\* POST /fulfillment/orders/{order_id}/shipping
apply_shipping_method(user_id, role, method_id, fail) ==
    IF ~has_permission(role, "update:orders")
    THEN Result(orders, order_history, 403,
                "You don't have permission to perform this action", {})
    ELSE IF ~orders.exists THEN Result(orders, order_history, 404, "Error fetching order", {})
    ELSE apply_shipping_to_order(method_id, user_id, fail)

Forbidden(detail) == FResult(orders, fulfillment_history, 403, detail, NoReport)

\* PATCH /fulfillment/orders/{order_id}/status
update_fulfillment_status_endpoint(user_id, role, new_status, notes, skip_validation, fail) ==
    IF ~has_permission(role, "update:fulfillment")
    THEN Forbidden("You don't have permission to perform this action")
    ELSE IF skip_validation /\ lower(role) # "admin"
    THEN Forbidden("Only administrators can skip validation checks")
    \* line 237 evaluates the name FulfillmentStatus
    ELSE IF "FulfillmentStatus" \notin RoutesFulfillmentImports
    THEN FResult(orders, fulfillment_history, 500, "NameError", NoReport)
    ELSE IF new_status = FulfillmentStatus.PROCESSING /\ ~skip_validation
            /\ ~orders.exists
    THEN FResult(orders, fulfillment_history, 404, "Order not found", NoReport)
    ELSE IF new_status = FulfillmentStatus.PROCESSING /\ ~skip_validation
            /\ ~validate_fulfillment_prerequisites.is_valid
    THEN FResult(orders, fulfillment_history, 200, "validation_failed",
                 validate_fulfillment_prerequisites)
    ELSE update_fulfillment_status(new_status, user_id, notes, fail)

\* POST /fulfillment/orders/{order_id}/validate/override
override_fulfillment_validation(user_id, role, override_reason) ==
    IF ~has_permission(role, "admin")
    THEN Forbidden("You don't have permission to perform this action")
    ELSE IF ~orders.exists
    THEN FResult(orders, fulfillment_history, 404, "Order not found", NoReport)
    ELSE IF validate_fulfillment_prerequisites.is_valid
    THEN FResult(orders, fulfillment_history, 200,
                 "Order already passes validation checks. No override needed.",
                 validate_fulfillment_prerequisites)
    ELSE FResult(orders, fulfillment_history, 200, "Validation checks have been overridden.",
                 override_validation(validate_fulfillment_prerequisites, user_id,
                                     override_reason))

\* lines 193-209: the body of override_fulfillment_validation, entered once
\* the dependency require_permission("admin") has returned the user
override_fulfillment_validation_body(user_id, override_reason) ==
    IF ~orders.exists
    THEN FResult(orders, fulfillment_history, 404, "Order not found", NoReport)
    ELSE IF validate_fulfillment_prerequisites.is_valid
    THEN FResult(orders, fulfillment_history, 200,
                 "Order already passes validation checks. No override needed.",
                 validate_fulfillment_prerequisites)
    ELSE FResult(orders, fulfillment_history, 200, "Validation checks have been overridden.",
                 override_validation(validate_fulfillment_prerequisites, user_id,
                                     override_reason))

\* GET /fulfillment/orders/{order_id}/validate
validate_order_for_fulfillment(role) ==
    IF ~has_permission(role, "update:fulfillment")
    THEN Forbidden("You don't have permission to perform this action")
    ELSE IF ~orders.exists
    THEN FResult(orders, fulfillment_history, 404, "Order not found", NoReport)
    ELSE FResult(orders, fulfillment_history, 200, "", validate_fulfillment_prerequisites)

FReply(result) ==
    /\ Len(result.fulfillment_history) <= MaxHistory
    /\ orders' = result.orders
    /\ fulfillment_history' = result.fulfillment_history
    /\ resp' = result.resp
    /\ stdout' = result.stdout
    /\ UNCHANGED <<calls, limiter>>

UpdateFulfillmentStatusEndpoint ==
    \E actor \in Actors, new_status \in FulfillmentInputs, notes \in NotesInputs,
       skip_validation \in BOOLEAN, fail \in FailInputs :
        /\ req' = Request("update_fulfillment_status_endpoint", actor.role, new_status,
                          skip_validation, NoFail)
        /\ FReply(update_fulfillment_status_endpoint(actor.id, actor.role, new_status, notes,
                                                      skip_validation, fail))
        /\ UNCHANGED <<order_history, stock_quantity>>

OverrideFulfillmentValidation ==
    \E actor \in Actors :
        /\ req' = Request("override_fulfillment_validation", actor.role, NULL, FALSE, NoFail)
        /\ FReply(override_fulfillment_validation(actor.id, actor.role, "reason"))
        /\ UNCHANGED <<order_history, stock_quantity>>

\* update_fulfillment_status called as a service function
UpdateFulfillmentStatusFrom(Statuses, Notes, Fails) ==
    \E user_id \in UserIds, new_status \in Statuses, notes \in Notes, fail \in Fails :
        /\ req' = Request("update_fulfillment_status", NULL, new_status, FALSE, fail)
        /\ FReply(update_fulfillment_status(new_status, user_id, notes, fail))
        /\ UNCHANGED <<order_history, stock_quantity>>

UpdateFulfillmentStatus ==
    UpdateFulfillmentStatusFrom(FulfillmentInputs, NotesInputs, FulfillmentFailPoints)

\* reasons an override request may carry
ReasonInputs == {"manual stock correction pending", "customer accepts delay"}

\* the handler of the override route called with its dependency resolved
OverrideFulfillmentValidationBody ==
    \E user_id \in UserIds, override_reason \in ReasonInputs :
        /\ req' = [Request("override_fulfillment_validation_body", NULL, NULL, FALSE, NoFail)
                      EXCEPT !.user_id = user_id, !.override_reason = override_reason]
        /\ FReply(override_fulfillment_validation_body(user_id, override_reason))
        /\ UNCHANGED <<order_history, stock_quantity>>

ApplyShippingMethod ==
    \E actor \in Actors, method_id \in MethodInputs, fail \in {NoFail} :
        /\ req' = Request("apply_shipping_method", actor.role, NULL, FALSE, fail)
        /\ Reply(apply_shipping_method(actor.id, actor.role, method_id, fail))
        /\ UNCHANGED <<fulfillment_history, stock_quantity>>

ValidateOrderForFulfillment ==
    \E actor \in Actors :
        /\ req' = Request("validate_order_for_fulfillment", actor.role, NULL, FALSE, NoFail)
        /\ FReply(validate_order_for_fulfillment(actor.role))
        /\ UNCHANGED <<order_history, stock_quantity>>

\* PUT /products/{product_id} with a stock_quantity
UpdateProduct ==
    \E actor \in Actors, quantity \in 0..MaxStock :
        /\ req' = Request("update_product", actor.role, NULL, FALSE, NoFail)
        /\ IF ~has_permission(actor.role, "update:products")
           THEN /\ resp' = [NoResp EXCEPT !.code = 403,
                               !.detail = "You don't have permission to perform this action"]
                /\ UNCHANGED stock_quantity
           ELSE IF ProductProducerId # actor.id
           THEN /\ resp' = [NoResp EXCEPT !.code = 403,
                               !.detail = "You don't have permission to update this product"]
                /\ UNCHANGED stock_quantity
           ELSE /\ resp' = [NoResp EXCEPT !.code = 200]
                /\ stock_quantity' = quantity
        /\ stdout' = {}
        /\ UNCHANGED <<orders, order_history, fulfillment_history, calls, limiter>>

(***************************************************************************)
(* middleware/rate_limiter.py                                              *)
(***************************************************************************)
\* the parameters of the RateLimiter, scaled down
rate_limit == 2
time_window == 2

\* client addresses
Keys == {"ip1", "ip2"}

\* request paths: an exempt one and a limited one
Paths == {"/health", "/api/orders"}
exempt_paths == {"/health"}

\* the limiter before any request: no key recorded; current_time is the clock
\* read by the last call of is_rate_limited, key and limited describe the last
\* dispatch (no key when its path was exempt)
NoLimiter == [requests |-> <<>>, current_time |-> 0, key |-> NULL, limited |-> FALSE]

\* variant: the comparison with the limit is strict
is_rate_limited_strict(requests, key, current_time) ==
    LET recorded == DictGet(requests, key, <<>>)
        kept == SelectSeq(recorded, LAMBDA ts : current_time - ts <= time_window)
    IN IF Len(kept) > rate_limit
       THEN [requests |-> (key :> kept) @@ requests, limited |-> TRUE]
       ELSE [requests |-> (key :> Append(kept, current_time)) @@ requests, limited |-> FALSE]

\* RateLimiter.is_rate_limited: the requests it leaves and its return value
is_rate_limited(requests, key, current_time) ==
    LET recorded == DictGet(requests, key, <<>>)
        kept == SelectSeq(recorded, LAMBDA ts : current_time - ts <= time_window)
    IN IF Len(kept) >= rate_limit
       THEN [requests |-> (key :> kept) @@ requests, limited |-> TRUE]
       ELSE [requests |-> (key :> Append(kept, current_time)) @@ requests, limited |-> FALSE]

\* RateLimiterMiddleware.dispatch; time.time() does not run backwards
Dispatch ==
    \E path \in Paths, client_ip \in Keys, current_time \in limiter.current_time..MaxTime :
        /\ IF path \in exempt_paths
           THEN limiter' = [limiter EXCEPT !.key = NULL, !.limited = FALSE]
           ELSE LET r == is_rate_limited(limiter.requests, client_ip, current_time)
                IN limiter' = [requests |-> r.requests, current_time |-> current_time,
                               key |-> client_ip, limited |-> r.limited]
        /\ UNCHANGED <<orders, order_history, fulfillment_history, stock_quantity,
                       req, resp, stdout, calls>>

(***************************************************************************)
(* The order-status machine.                                               *)
(***************************************************************************)
Init ==
    /\ orders = NoOrder
    /\ order_history = <<>>
    /\ fulfillment_history = <<>>
    /\ stock_quantity = 0
    /\ req = NoReq
    /\ resp = NoResp
    /\ stdout = {}
    /\ calls = [p \in Callers |-> IdleCall]
    /\ limiter = NoLimiter

Next ==
    \/ CreateNewOrder
    \/ UpdateOrderStatusEndpoint
    \/ CancelOrderEndpoint
    \/ GetAvailableStatusTransitions

Spec == Init /\ [][Next]_vars

\* the rate limiter alone
RateLimiterSpec == Init /\ [][Dispatch]_vars

(***************************************************************************)
(* The timeline of an order that is created and moved through its statuses.*)
(***************************************************************************)
CreateNewOrderForTimeline == CreateNewOrderFrom({"new", "pending", "confirmed"}, {"pending"})

UpdateOrderStatusForTimeline == UpdateOrderStatusEndpointFrom({NoNotes, UserNotes}, {NoFail})

TimelineNext ==
    \/ CreateNewOrderForTimeline
    \/ UpdateOrderStatusForTimeline
    \/ GetOrderTimeline

TimelineSpec == Init /\ [][TimelineNext]_vars

(***************************************************************************)
(* The fulfillment endpoints.                                              *)
(***************************************************************************)
CreateNewOrderForFulfillment == CreateNewOrderFrom({"new", "processing"}, {"pending", "ready"})

FulfillmentNext ==
    \/ CreateNewOrderForFulfillment
    \/ UpdateProduct
    \/ ValidateOrderForFulfillment
    \/ OverrideFulfillmentValidation
    \/ UpdateFulfillmentStatusEndpoint

FulfillmentSpec == Init /\ [][FulfillmentNext]_vars

(***************************************************************************)
(* Two workers serving status transitions of the same order.               *)
(***************************************************************************)
CreateNewOrderForCalls == CreateNewOrderFrom({"new", "pending"}, {"pending"})

ConcurrentNext ==
    \/ CreateNewOrderForCalls
    \/ \E p \in Callers : TransitionGetOrder(p)
    \/ \E p \in Callers : UpdateOrderGetOrder(p)
    \/ \E p \in Callers : InsertOrderHistory(p)
    \/ \E p \in Callers : UpdateOrders(p)

ConcurrentSpec == Init /\ [][ConcurrentNext]_vars

(***************************************************************************)
(* The fulfillment service function, called on orders at several stages.   *)
(***************************************************************************)
CreateNewOrderForService ==
    CreateNewOrderFrom({"new", "processing"}, {"pending", "packed", "ready"})

FulfillmentServiceNext ==
    \/ CreateNewOrderForService
    \/ UpdateFulfillmentStatus

FulfillmentServiceSpec == Init /\ [][FulfillmentServiceNext]_vars

(***************************************************************************)
(* Every operation that writes the order row, on one order.                *)
(***************************************************************************)
CreateNewOrderForOrders == CreateNewOrderFrom({"new", "pending"}, {"pending", "ready"})

UpdateFulfillmentStatusForOrders ==
    UpdateFulfillmentStatusFrom({"processing", "shipped", "cancelled"}, {NoNotes}, {NoFail})

OrderNext ==
    \/ CreateNewOrderForOrders
    \/ UpdateExistingOrder
    \/ UpdateFulfillmentStatusForOrders
    \/ ApplyShippingMethod

OrderSpec == Init /\ [][OrderNext]_vars

(***************************************************************************)
(* Status transitions of orders whose payment and fulfillment vary.        *)
(***************************************************************************)
CreateNewOrderForTransitions ==
    CreateNewOrderFrom({"new", "pending", "processing"}, {"pending", "ready"})

UpdateOrderStatusForTransitions == UpdateOrderStatusEndpointFrom({NoNotes, UserNotes}, {NoFail})

TransitionNext ==
    \/ CreateNewOrderForTransitions
    \/ UpdateOrderStatusForTransitions
    \/ CancelOrderEndpoint

TransitionSpec == Init /\ [][TransitionNext]_vars

(***************************************************************************)
(* A sequential run of transition_order_status calls on one order.         *)
(***************************************************************************)
\* the callers of the run
RunActors == {[id |-> "u1", role |-> "customer"], [id |-> "u2", role |-> "admin"]}

CreateNewOrderForRun == CreateNewOrderFrom(OrderStatus, {"pending"})

\* transition_order_status called as a service function
TransitionOrderStatus ==
    \E actor \in RunActors, new_status \in OrderStatus :
        LET result == transition_order_status(new_status, actor.id, actor.role,
                                              NoNotes, NoFail)
        IN /\ Len(result.order_history) <= MaxRun
           /\ req' = Request("transition_order_status", actor.role, new_status, FALSE, NoFail)
           /\ orders' = result.orders
           /\ order_history' = result.order_history
           /\ resp' = result.resp
           /\ stdout' = {}
           /\ UNCHANGED <<fulfillment_history, stock_quantity, calls, limiter>>

RunNext ==
    \/ CreateNewOrderForRun
    \/ TransitionOrderStatus

RunSpec == Init /\ [][RunNext]_vars

(***************************************************************************)
(* The validation override applied to the reports of orders in and out of  *)
(* stock.                                                                  *)
(***************************************************************************)
CreateNewOrderForValidation == CreateNewOrderFrom({"new", "processing"}, {"pending"})

ValidationNext ==
    \/ CreateNewOrderForValidation
    \/ UpdateProduct
    \/ OverrideFulfillmentValidationBody

ValidationSpec == Init /\ [][ValidationNext]_vars

(***************************************************************************)
(* Properties of the order-status machine.                                 *)
(***************************************************************************)
\* the adjacency table as the specification states it (section 4.1)
ClaimedAdjacency(s) ==
    CASE s = "new"        -> {"pending", "cancelled"}
      [] s = "pending"    -> {"processing", "cancelled"}
      [] s = "processing" -> {"shipped", "cancelled"}
      [] s = "shipped"    -> {"delivered", "returned"}
      [] s = "delivered"  -> {"returned"}
      [] OTHER            -> {}

\* the handlers that run transition_order_status
TransitionOps == {"update_order_status_endpoint", "cancel_order_endpoint"}

\* the step is a call of transition_order_status on the existing order
TransitionCall == orders.exists /\ req'.op \in TransitionOps /\ req'.new_status # NULL

\* the call left the order row and its history as they were
OrderUntouched == orders' = orders /\ order_history' = order_history

\* the response reports that the persistence layer could not be read
LoadFailed(r) == r.code = 500 /\ r.detail = "Error fetching order"

\* C1: a transition request for a pair that is not an edge of the adjacency
\* table is refused for every role (with the reason "Invalid status value"
\* when either status is outside the enumeration) and leaves the order as it was
C1_NonEdgeRefused ==
    [][ (TransitionCall /\ req'.new_status \notin ClaimedAdjacency(orders.status))
          => /\ OrderUntouched
             /\ resp'.code = 400 \/ LoadFailed(resp')
             /\ (resp'.code = 400
                   /\ (orders.status \notin OrderStatus \/ req'.new_status \notin OrderStatus))
                 => resp'.detail = "Invalid status value" ]_vars

C1_Witness ==
    /\ orders.exists /\ orders.status = "confirmed"
    /\ req.op = "update_order_status_endpoint" /\ req.new_status = "pending"
    /\ req.role = "admin"
    /\ resp.code = 400 /\ resp.detail = "Invalid status value"

\* C2: on a legal pair a role outside the pair's authorized set is refused and
\* nothing changes; pending->processing succeeds only for staff and admin,
\* new->cancelled is not refused for customer, staff and admin
C2_UnauthorizedRoleRefused ==
    [][ TransitionCall =>
          /\ ( /\ req'.new_status \in ClaimedAdjacency(orders.status)
               /\ lower(req'.role) \notin
                     DictGet(STATUS_TRANSITION_ROLES, <<orders.status, req'.new_status>>, {}) )
               => ( /\ OrderUntouched
                    /\ resp'.code # 200
                    /\ ~LoadFailed(resp') => resp'.detail = "User with role cannot transition" )
          /\ (orders.status = "pending" /\ req'.new_status = "processing"
                /\ lower(req'.role) \notin {"staff", "admin"})
               => (resp'.code # 200 /\ OrderUntouched)
          /\ (orders.status = "new" /\ req'.new_status = "cancelled"
                /\ lower(req'.role) \in {"customer", "staff", "admin"})
               => resp'.code # 400 ]_vars

C2_Witness ==
    /\ orders.exists /\ orders.status = "pending"
    /\ req.op = "update_order_status_endpoint" /\ req.new_status = "processing"
    /\ req.role = "producer"
    /\ resp.code = 400 /\ resp.detail = "User with role cannot transition"

\* C3: the transitions listed for a status are exactly its adjacency set (empty
\* for a status outside the enumeration), and the structural check refuses a
\* known pair exactly when the requested status is not in that list
C3_ValidTransitionsAreAdjacency ==
    [][ /\ (orders.exists /\ req'.op = "get_available_status_transitions" /\ resp'.code = 200)
            => resp'.valid = ClaimedAdjacency(orders.status)
        /\ (TransitionCall /\ orders.status \in OrderStatus /\ req'.new_status \in OrderStatus
              /\ ~LoadFailed(resp'))
            => ( (resp'.code = 400 /\ resp'.detail = "Cannot transition")
                   <=> req'.new_status \notin get_valid_status_transitions(orders.status) ) ]_vars

C3_Witness ==
    /\ orders.exists /\ orders.status = "delivered"
    /\ req.op = "get_available_status_transitions"
    /\ resp.code = 200 /\ resp.valid = {"returned"}

\* C4: cancelled and returned are terminal: no transitions are listed for
\* them and no transition request on such an order succeeds or changes it
C4_TerminalStatuses ==
    [][ (orders.exists /\ orders.status \in {"cancelled", "returned"}) =>
          /\ (req'.op = "get_available_status_transitions" /\ resp'.code = 200)
                => resp'.valid = {}
          /\ TransitionCall => (resp'.code # 200 /\ OrderUntouched) ]_vars

C4_Witness ==
    /\ orders.exists /\ orders.status = "returned"
    /\ Len(order_history) = 2 /\ order_history[2].new_status = "returned"
    /\ req.op = "update_order_status_endpoint" /\ req.new_status = "shipped"
    /\ req.role = "admin" /\ resp.code = 400

\* C5: a successful transition appends exactly one history entry recording the
\* status before the call and the requested status, and the order then has the
\* requested status; a refused transition appends nothing
C5_OneHistoryEntryPerTransition ==
    [][ TransitionCall =>
          /\ resp'.code = 200 =>
                /\ Len(order_history') = Len(order_history) + 1
                /\ SubSeq(order_history', 1, Len(order_history)) = order_history
                /\ order_history'[Len(order_history')].previous_status = orders.status
                /\ order_history'[Len(order_history')].new_status = req'.new_status
                /\ orders'.status = req'.new_status
          /\ resp'.code = 400 => order_history' = order_history ]_vars

C5_Witness ==
    /\ req.op = "update_order_status_endpoint" /\ req.role = "customer"
    /\ resp.code = 200 /\ orders.status = "pending"
    /\ Len(order_history) = 2
    /\ order_history[2].previous_status = "new" /\ order_history[2].new_status = "pending"

\* C6: a legal transition requested by a role outside the authorized set is
\* answered with 403 Forbidden
C6_UnauthorizedRoleIsForbidden ==
    [][ ( /\ TransitionCall
          /\ req'.new_status \in ClaimedAdjacency(orders.status)
          /\ lower(req'.role) \notin
                DictGet(STATUS_TRANSITION_ROLES, <<orders.status, req'.new_status>>, {})
          /\ ~LoadFailed(resp') )
        => resp'.code = 403 ]_vars

\* C7: a structurally illegal transition is answered with 400 and a reason
\* that lists exactly the adjacency set of the current status, and the order's
\* status, payment_status, notes and history stay as they were
C7_IllegalTransitionIsBadRequest ==
    [][ ( /\ TransitionCall
          /\ orders.status \in OrderStatus /\ req'.new_status \in OrderStatus
          /\ req'.new_status \notin ClaimedAdjacency(orders.status) )
        => /\ orders'.status = orders.status
           /\ orders'.payment_status = orders.payment_status
           /\ orders'.notes = orders.notes
           /\ order_history' = order_history
           /\ ~LoadFailed(resp') =>
                /\ resp'.code = 400
                /\ resp'.detail = "Cannot transition"
                /\ resp'.valid = ClaimedAdjacency(orders.status) ]_vars

C7_Witness ==
    /\ orders.exists /\ orders.status = "new"
    /\ req.op = "update_order_status_endpoint" /\ req.new_status = "delivered"
    /\ resp.code = 400 /\ resp.detail = "Cannot transition"
    /\ resp.valid = {"pending", "cancelled"}

\* C8: a successful transition to cancelled of an order whose payment_status
\* was paid leaves the payment_status refunded
C8_CancelPaidRefunds ==
    [][ ( /\ TransitionCall /\ resp'.code = 200
          /\ req'.new_status = "cancelled" /\ orders.payment_status = "paid" )
        => (orders'.status = "cancelled" /\ orders'.payment_status = "refunded") ]_vars

C8_Witness ==
    /\ req.op = "update_order_status_endpoint" /\ req.role = "admin"
    /\ req.new_status = "cancelled" /\ resp.code = 200
    /\ orders.status = "cancelled" /\ orders.payment_status = "refunded"
    /\ Len(order_history) = 2 /\ order_history[2].previous_status = "processing"

\* the step is a timeline request that the caller was allowed to make
TimelineCall == orders.exists /\ req'.op = "get_order_timeline" /\ resp'.code # 403

\* C15: the timeline has one item per history entry, oldest entry first,
\* each item carrying the entry's new_status, previous_status and notes and
\* the fixed description of its new_status
C15_TimelineAscending ==
    [][ (TimelineCall /\ req'.fail = NoFail /\ resp'.code = 200)
        => /\ Len(resp'.timeline) = Len(order_history)
           /\ \A i \in 1..Len(order_history) :
                 /\ resp'.timeline[i].status = order_history[i].new_status
                 /\ resp'.timeline[i].previous_status = order_history[i].previous_status
                 /\ resp'.timeline[i].notes = order_history[i].notes
                 /\ resp'.timeline[i].description
                       = DictGet(STATUS_DESCRIPTIONS, order_history[i].new_status, "") ]_vars

\* C16: a timeline request on an existing order answers with a list (empty
\* when the order has no history) unless the persistence layer fails, changes
\* nothing, and two requests in a row return the same list
C16_TimelineNeverFails ==
    [][ TimelineCall
        => /\ resp'.code = 200 \/ LoadFailed(resp')
           /\ OrderUntouched
           /\ (resp'.code = 200 /\ order_history = <<>>) => resp'.timeline = <<>>
           /\ ( /\ req.op = "get_order_timeline" /\ req.fail = req'.fail
                 /\ resp.code = 200 /\ resp'.code = 200 )
               => resp'.timeline = resp.timeline ]_vars

\* C17: every order that create_order produces has status new,
\* fulfillment_status pending and payment_status pending, and its initial
\* history entry records new as the new_status
C17_CreatedOrderIsNew ==
    [][ (req'.op = "create_new_order" /\ resp'.code = 201)
        => /\ orders'.exists
           /\ orders'.status = "new"
           /\ orders'.fulfillment_status = "pending"
           /\ orders'.payment_status = "pending"
           /\ \A i \in 1..Len(order_history') : order_history'[i].new_status = "new" ]_vars

(***************************************************************************)
(* Properties of concurrent status transitions.                            *)
(***************************************************************************)
\* worker p has passed validation and has not returned yet
InUpdateOrder(p) == calls[p].pc \in {"update_order", "history", "update"}

\* the pair is an edge of the adjacency table
LegalPair(previous_status, new_status) ==
    /\ previous_status \in OrderStatus
    /\ new_status \in VALID_STATUS_TRANSITIONS[previous_status]

\* C18: nothing makes a transition wait for, or fail on, another one: a call
\* that passed validation always returns success and leaves its own status in
\* the order row, whatever was written since it read the order; so two calls
\* validated against the same status both succeed, the later write wins and
\* the history can record a pair that is not a legal transition
C18_NoAtMostOneTransition ==
    [][ \A p \in Callers :
          (InUpdateOrder(p) /\ calls'[p].pc = "done")
            => ( /\ calls'[p].code = 200
                 /\ orders'.status = calls[p].new_status ) ]_vars

C18_Witness ==
    /\ \A p \in Callers : calls[p].pc = "done" /\ calls[p].code = 200
    /\ calls["w1"].order.status = "new" /\ calls["w2"].order.status = "new"
    /\ calls["w1"].new_status = "cancelled" /\ calls["w2"].new_status = "pending"
    /\ orders.status = "pending"
    /\ \E i \in 1..Len(order_history) :
          /\ order_history[i].previous_status = "cancelled"
          /\ order_history[i].new_status = "pending"
          /\ ~LegalPair(order_history[i].previous_status, order_history[i].new_status)

\* C19: the history entry that a transition appends records the acting user
\* and the transition's notes: the caller's notes when given, otherwise the
\* note generated from the status before and after
C19_HistoryRecordsActorAndNotes ==
    [][ \A p \in Callers :
          (calls[p].pc = "history" /\ calls'[p].pc = "update")
            => ( /\ Len(order_history') = Len(order_history) + 1
                 /\ order_history'[Len(order_history')].changed_by = calls[p].user_id
                 /\ order_history'[Len(order_history')].notes
                       = TransitionUpdate(calls[p]).notes ) ]_vars

(***************************************************************************)
(* Properties of the fulfillment endpoints.                                *)
(***************************************************************************)
\* the call left the order row and both histories as they were
NothingMutated ==
    /\ orders' = orders
    /\ order_history' = order_history
    /\ fulfillment_history' = fulfillment_history

\* C9: an administrator's request to move an out-of-stock order to processing
\* without the skip flag is answered with the result "validation_failed" and
\* the failing report, and mutates nothing
C9_ValidationFailedResult ==
    [][ ( /\ req'.op = "update_fulfillment_status_endpoint"
          /\ req'.role = "admin" /\ req'.new_status = "processing"
          /\ ~req'.skip_validation
          /\ orders.exists /\ stock_quantity = 0 )
        => /\ resp'.detail = "validation_failed"
           /\ ~resp'.report.is_valid
           /\ \E i \in 1..Len(resp'.report.checks) :
                 resp'.report.checks[i].name = "stock" /\ ~resp'.report.checks[i].passed
           /\ NothingMutated ]_vars

\* C10: a request with skip_validation set, and a validation-override request,
\* from an actor whose role is not admin are answered with 403, hand out no
\* overridden report and mutate nothing, whatever status is requested
C10_EscapeHatchesAdminOnly ==
    [][ ( /\ lower(req'.role) # "admin"
          /\ \/ req'.op = "update_fulfillment_status_endpoint" /\ req'.skip_validation
             \/ req'.op = "override_fulfillment_validation" )
        => /\ resp'.code = 403
           /\ resp'.report = NoReport
           /\ NothingMutated ]_vars

C10_Witness ==
    /\ orders.exists /\ orders.fulfillment_status = "pending" /\ stock_quantity = 0
    /\ req.op = "update_fulfillment_status_endpoint" /\ req.skip_validation
    /\ req.role = "staff" /\ req.new_status = "processing"
    /\ resp.code = 403

\* the step is a PATCH of the fulfillment status that met no persistence failure
FulfillmentPatch ==
    /\ req'.op = "update_fulfillment_status_endpoint"
    /\ resp'.detail \notin {"Error fetching order", "Error updating order status"}

\* C11: for an existing order that fails prerequisite validation, an
\* administrator's validation override followed by the same administrator's
\* request for processing with skip_validation set are both accepted, the
\* order's fulfillment_status becomes processing and one fulfillment-history
\* entry is appended for the transition
C11_OverrideThenSkipSucceeds ==
    [][ /\ ( /\ req'.op = "override_fulfillment_validation" /\ req'.role = "admin"
              /\ orders.exists /\ stock_quantity = 0 )
            => ( /\ resp'.code = 200
                 /\ resp'.report.is_valid
                 /\ resp'.report.override.by # NULL )
        /\ ( /\ req.op = "override_fulfillment_validation" /\ req.role = "admin"
              /\ FulfillmentPatch /\ req'.role = "admin"
              /\ req'.skip_validation /\ req'.new_status = "processing"
              /\ orders.exists /\ orders.fulfillment_status = "pending"
              /\ stock_quantity = 0 )
            => ( /\ resp.code = 200 /\ resp'.code = 200
                 /\ orders'.fulfillment_status = "processing"
                 /\ Len(fulfillment_history') = Len(fulfillment_history) + 1
                 /\ fulfillment_history'[Len(fulfillment_history')].previous_status = "pending"
                 /\ fulfillment_history'[Len(fulfillment_history')].new_status = "processing" )
      ]_vars

\* C20: a request to move to processing from a fulfillment status that has no
\* legal edge to processing is answered with 400 naming the illegal
\* transition, whatever the stock of the product is, and mutates nothing
C20_LegalityBeforePrerequisites ==
    [][ ( /\ FulfillmentPatch /\ req'.role = "admin"
          /\ req'.new_status = "processing"
          /\ orders.exists
          /\ ~validate_status_transition(orders.fulfillment_status, "processing") )
        => ( /\ resp'.code = 400
             /\ resp'.detail = "Invalid status transition"
             /\ NothingMutated ) ]_vars

(***************************************************************************)
(* Properties of the fulfillment service function.                         *)
(***************************************************************************)
\* the step is a call of update_fulfillment_status on the existing order
ServiceCall == orders.exists /\ req'.op = "update_fulfillment_status"

\* the fulfillment statuses that the order-level status follows
LockstepStatuses == {"shipped", "delivered", "cancelled"}

\* the call wrote the requested fulfillment status to the order row
StatusPersisted == orders'.fulfillment_status = req'.new_status /\ orders' # orders

\* the call wrote the history entry of the transition
HistoryPersisted ==
    /\ Len(fulfillment_history') = Len(fulfillment_history) + 1
    /\ SubSeq(fulfillment_history', 1, Len(fulfillment_history)) = fulfillment_history
    /\ fulfillment_history'[Len(fulfillment_history')].previous_status
          = orders.fulfillment_status
    /\ fulfillment_history'[Len(fulfillment_history')].new_status = req'.new_status

\* C12: a legal request for shipped, delivered or cancelled succeeds and
\* leaves the order-level status equal to the requested fulfillment status;
\* a request for any other fulfillment status leaves the order-level status
\* as it was
C12_LockstepStatus ==
    [][ /\ ( /\ ServiceCall /\ req'.fail = NoFail
              /\ req'.new_status \in LockstepStatuses
              /\ validate_status_transition(orders.fulfillment_status, req'.new_status) )
            => ( /\ resp'.code = 200
                 /\ orders'.fulfillment_status = req'.new_status
                 /\ orders'.status = req'.new_status )
        /\ (ServiceCall /\ req'.new_status \notin LockstepStatuses)
            => orders'.status = orders.status ]_vars

\* C13: when the fulfillment-history insert fails, the call either failed
\* before writing anything or it succeeds: the answer is 200, the new
\* fulfillment_status is persisted, no history entry is added and the failure
\* is only printed
C13_HistoryFailureNotSurfaced ==
    [][ (ServiceCall /\ req'.fail = "history_insert")
        => \/ /\ resp'.code = 200
               /\ StatusPersisted
               /\ fulfillment_history' = fulfillment_history
               /\ "Error creating fulfillment history entry" \in stdout'
           \/ /\ resp'.code # 200
               /\ NothingMutated ]_vars

C13_Witness ==
    /\ req.op = "update_fulfillment_status" /\ req.fail = "history_insert"
    /\ req.new_status = "shipped" /\ resp.code = 200
    /\ orders.fulfillment_status = "shipped" /\ orders.status = "shipped"
    /\ fulfillment_history = <<>>
    /\ "Error creating fulfillment history entry" \in stdout

\* C14: a failure of the notification dispatch, or of the lookup of its
\* recipient, never fails a call whose status change was written: such a call
\* answers 200 with the new fulfillment_status and the history entry
\* persisted, and every call that prints a notification error does so too
C14_NotificationFailureContained ==
    [][ /\ (ServiceCall /\ req'.fail \in {"notify", "order_items_fetch"})
            => \/ resp'.code = 200 /\ StatusPersisted /\ HistoryPersisted
               \/ resp'.code # 200 /\ NothingMutated
        /\ (ServiceCall /\ "Error sending producer notification" \in stdout')
            => ( /\ resp'.code = 200 /\ StatusPersisted
                 /\ req'.fail # "history_insert" => HistoryPersisted ) ]_vars

C14_Witness ==
    /\ req.op = "update_fulfillment_status" /\ req.fail = "notify"
    /\ req.new_status = "shipped" /\ resp.code = 200
    /\ orders.fulfillment_status = "shipped"
    /\ Len(fulfillment_history) = 1 /\ fulfillment_history[1].new_status = "shipped"
    /\ "Error sending producer notification" \in stdout

(***************************************************************************)
(* Properties of the operations that write the order row.                  *)
(***************************************************************************)
\* a PUT /orders/{order_id} on an existing order
PutCall == orders.exists /\ req'.op = "update_existing_order"

\* C23: through PUT /orders/{id} an actor who is neither admin nor staff can
\* change only the notes, and only of an order they own: a request on someone
\* else's order, or one that sets a field other than notes, is answered 403
\* and changes nothing.
C23_NonStaffNotesOnOwnOrder ==
    [][PutCall /\ lower(req'.role) \notin {"admin", "staff"}
              /\ (orders.customer_id # req'.user_id \/ NonNotesKeys(req'.body) # {})
        => resp'.code = 403 /\ NothingMutated]_vars

\* C24: whatever operation runs, every change of an order's status from s to
\* a different t is an edge of the adjacency table.
C24_StatusChangesAreEdges ==
    [][orders.exists /\ orders'.exists /\ orders'.status # orders.status
        => LegalPair(orders.status, orders'.status)]_vars

\* C25: in every state the most recent order-history entry records the
\* order's current status.
C25_HistoryAgreesWithOrder ==
    orders.exists /\ order_history # <<>>
        => order_history[Len(order_history)].new_status = orders.status

\* C26: the fulfillment_status of an existing order changes only in a call of
\* update_fulfillment_status, along an edge of the fulfillment transition table.
C26_FulfillmentStatusOnlyByService ==
    [][orders.exists /\ orders'.exists
            /\ orders'.fulfillment_status # orders.fulfillment_status
        => /\ req'.op = "update_fulfillment_status"
           /\ validate_status_transition(orders.fulfillment_status,
                                         orders'.fulfillment_status)]_vars

\* C27: a successful transition_order_status sets the status to the requested
\* one, turns a paid payment into refunded when the order is cancelled and
\* leaves the payment status alone otherwise, and changes neither the owner,
\* the fulfillment status, the fulfillment history nor the stock.
C27_TransitionFrame ==
    [][TransitionCall /\ resp'.code = 200 =>
        /\ orders'.exists
        /\ orders'.status = req'.new_status
        /\ orders'.payment_status =
              IF req'.new_status = "cancelled" /\ orders.payment_status = "paid"
              THEN "refunded" ELSE orders.payment_status
        /\ orders'.customer_id = orders.customer_id
        /\ orders'.fulfillment_status = orders.fulfillment_status
        /\ fulfillment_history' = fulfillment_history
        /\ stock_quantity' = stock_quantity
    ]_vars

\* a paid order whose fulfillment is ready was moved to processing
C27_Witness ==
    /\ req.op \in TransitionOps
    /\ resp.code = 200
    /\ orders.status = "processing"
    /\ orders.payment_status = "paid"
    /\ orders.fulfillment_status = "ready"

\* C28: no order is cancelled and paid at once.
C28_NoCancelledPaid ==
    ~(orders.exists /\ orders.status = "cancelled" /\ orders.payment_status = "paid")

(***************************************************************************)
(* The validation override.                                                *)
(***************************************************************************)
\* the override was applied by the call
OverrideApplied ==
    /\ req'.op = "override_fulfillment_validation_body"
    /\ resp'.detail = "Validation checks have been overridden."

\* C21: when the override is applied, the report handed back has is_valid
\* true, holds the check results of the failed validation unchanged (a failing
\* check among them), and carries the acting user, the reason given and a
\* timestamp; nothing is written and the stock the checks read is as it was.
C21_OverrideKeepsFailingChecks ==
    [][OverrideApplied =>
        /\ ~validate_fulfillment_prerequisites.is_valid
        /\ resp'.report.is_valid
        /\ resp'.report.checks = validate_fulfillment_prerequisites.checks
        /\ \E i \in 1..Len(resp'.report.checks) : ~resp'.report.checks[i].passed
        /\ resp'.report.override.by = req'.user_id
        /\ resp'.report.override.reason = req'.override_reason
        /\ resp'.report.override.timestamp # NULL
        /\ NothingMutated
        /\ stock_quantity' = stock_quantity
    ]_vars

\* an override was applied to the report of an order that is out of stock
C21_Witness ==
    /\ req.op = "override_fulfillment_validation_body"
    /\ resp.report.is_valid
    /\ resp.report.override.by = "u2"
    /\ resp.report.override.reason = "customer accepts delay"
    /\ stock_quantity = 0

(***************************************************************************)
(* Runs of transitions.                                                    *)
(***************************************************************************)
\* the statuses the order has been in, in order: the one before the first
\* recorded change, then the new status of every history entry
Visited(history) ==
    LET first == IF history = <<>> \/ history[1].previous_status = NULL
                 THEN <<>> ELSE <<history[1].previous_status>>
    IN first \o [i \in 1..Len(history) |-> history[i].new_status]

\* the history entries written by transitions (not by the creation)
Transitions(history) == {i \in 1..Len(history) : history[i].previous_status # NULL}

\* the statuses reachable from the statuses S in at most n transitions
RECURSIVE ReachableFrom(_, _)
ReachableFrom(S, n) ==
    IF n = 0 THEN S
    ELSE ReachableFrom(S \cup UNION {get_valid_status_transitions(s) : s \in S}, n - 1)

\* C29: in a sequential run of transition_order_status calls on one order no
\* status is entered twice, at most five calls succeed, after five successes
\* no transition is left, and from every status of the table a status without
\* outgoing transitions can be reached.
C29_RunsAreAcyclicAndShort ==
    /\ \A i, j \in 1..Len(Visited(order_history)) :
          i < j => Visited(order_history)[i] # Visited(order_history)[j]
    /\ Cardinality(Transitions(order_history)) <= 5
    /\ Cardinality(Transitions(order_history)) = 5 =>
          get_valid_status_transitions(orders.status) = {}
    /\ orders.exists /\ orders.status \in OrderStatus =>
          \E t \in ReachableFrom({orders.status}, Cardinality(OrderStatus)) :
              get_valid_status_transitions(t) = {}

\* five transitions succeeded and a sixth call was rejected
C29_Witness ==
    /\ Cardinality(Transitions(order_history)) = 5
    /\ req.op = "transition_order_status"
    /\ resp.code = 400

(***************************************************************************)
(* The role tiers.                                                         *)
(***************************************************************************)
\* C22: producer and staff are one tier: a status transition requested by a
\* producer is refused as unauthorized only when it would be refused for staff
\* too, and has_minimum_role ranks the producer and staff the same against
\* every role.
C22_ProducerStaffOneTier ==
    [][TransitionCall /\ req'.role = "producer" =>
        /\ resp'.detail = "User with role cannot transition" =>
              ~can_transition_status(orders.status, req'.new_status, "staff").allowed
        /\ \A required_role \in RoleInputs :
              has_minimum_role(req'.role, required_role)
                  <=> has_minimum_role("staff", required_role)
    ]_vars

(***************************************************************************)
(* The rate limiter.                                                       *)
(***************************************************************************)
\* the timestamps recorded for key in the limiter state l
Recorded(l, key) == DictGet(l.requests, key, <<>>)

\* the positions of the timestamps of record within the window that ends at t
InWindow(record, t) == {i \in 1..Len(record) : t - record[i] <= time_window}

\* C30 as stated: in every state every key has at most rate_limit recorded
\* timestamps, all of them within the last time_window seconds of the clock.
C30_RecordsWithinWindow ==
    \A key \in Keys :
        /\ Len(Recorded(limiter, key)) <= rate_limit
        /\ \A i \in 1..Len(Recorded(limiter, key)) :
              limiter.current_time - Recorded(limiter, key)[i] <= time_window

\* C30, amended: a call of is_rate_limited for a key at time t is accepted exactly
\* when fewer than rate_limit recorded timestamps of that key lie within the window
\* ending at t; an accepted call appends t to those timestamps, a rejected call
\* adds nothing; afterwards the key has at most rate_limit timestamps, all within
\* time_window of t, every key has at most rate_limit timestamps, and the record
\* of every other key is unchanged (so it may hold timestamps older than the
\* window until that key's next call).
C30_AcceptedExactlyBelowLimit ==
    [][limiter'.key # NULL =>
        LET key == limiter'.key
            t == limiter'.current_time
            before == Recorded(limiter, key)
            after == Recorded(limiter', key)
            kept == SelectSeq(before, LAMBDA ts : ts \in {before[i] : i \in InWindow(before, t)})
        IN /\ limiter'.limited <=> ~(Cardinality(InWindow(before, t)) < rate_limit)
           /\ ~limiter'.limited => after = Append(kept, t)
           /\ limiter'.limited => after = kept
           /\ \A i \in 1..Len(after) : after[i] <= t /\ t - after[i] <= time_window
           /\ \A other \in Keys :
                 /\ Len(Recorded(limiter', other)) <= rate_limit
                 /\ other # key => Recorded(limiter', other) = Recorded(limiter, other)
    ]_vars

\* a call was rejected while another key holds a timestamp older than the window
C30_Witness ==
    /\ limiter.key # NULL
    /\ limiter.limited
    /\ \E other \in Keys \ {limiter.key} :
          \E i \in 1..Len(Recorded(limiter, other)) :
              limiter.current_time - Recorded(limiter, other)[i] > time_window

====
